---- MODULE Spec2Model ----
(***************************************************************************)
(* Model of the datetime-helpers crate: the French business-day calendar   *)
(* (src/src/calendar.rs) and the Teliway text helpers                      *)
(* (src/src/formatter.rs).                                                 *)
(*                                                                         *)
(* A NaiveDate is modelled by its day number (days since 1970-01-01 in the *)
(* proleptic Gregorian calendar), so `date + Duration::days(n)` is integer *)
(* addition; year, month, day and weekday are computed from the day number *)
(* and back.  A NaiveDateTime is a record of a date and the second of the  *)
(* day.  A text is a sequence of one-character strings.                    *)
(***************************************************************************)
EXTENDS Integers, Sequences, FiniteSets, TLC

VARIABLES pc, op, ctor, cal, arg, frame, result

vars == <<pc, op, ctor, cal, arg, frame, result>>

----------------------------------------------------------------------------
(* Bounds of the model.                                                    *)

\* construction years of Spec and SpecHours
MinYear == 2018
MaxYear == 2024
\* construction years of SpecWalk: MinYear..MaxWalkYear
MaxWalkYear == 2020
\* query dates reach this many days beyond the three materialized years
DateMargin == 3
\* first step of a day traversal: 0..MaxDays calendar days
MaxDays == 5
\* first step of an hour traversal: multiples of HourStride up to MaxHourSteps
HourStride == 12
MaxHourSteps == 4
\* deepest recursion of a traversal followed invocation by invocation
MaxDepth == 8
\* construction years of SpecCtor: -NegYears .. MaxCtorYear
NegYears == 3
MaxCtorYear == 9999
\* construction years of SpecHolidays
MinHolidayYear == 1900
MaxHolidayYear == 2100
\* years of the dates formatted in SpecFmt
MinFmtYear == 999
MaxFmtYear == 1000

----------------------------------------------------------------------------
(* Result<T, Error>                                                        *)

Ok(v) == [ok |-> TRUE, val |-> v]

Err(kind, msg) == [ok |-> FALSE, val |-> <<kind, msg>>]

\* u32 arithmetic left its range: a panic where overflow checks are compiled
\* in, a wrapped value where they are not
Overflowed == [ok |-> FALSE, val |-> <<"ArithmeticOverflow", <<>>>>]

----------------------------------------------------------------------------
(* chrono's NaiveDate                                                      *)

IsLeapYear(y) == (y % 4 = 0 /\ y % 100 # 0) \/ y % 400 = 0

DaysInMonth(y, m) ==
    IF m = 2 THEN (IF IsLeapYear(y) THEN 29 ELSE 28)
    ELSE IF m \in {4, 6, 9, 11} THEN 30 ELSE 31

\* day number of a valid (year, month, day)
DaysFromCivil(y, m, d) ==
    LET yy  == IF m <= 2 THEN y - 1 ELSE y
        era == yy \div 400
        yoe == yy - era * 400
        mp  == IF m > 2 THEN m - 3 ELSE m + 9
        doy == (153 * mp + 2) \div 5 + d - 1
        doe == yoe * 365 + yoe \div 4 - yoe \div 100 + doy
    IN  era * 146097 + doe - 719468

\* <<year, month, day>> of a day number
CivilFromDays(z) ==
    LET zz  == z + 719468
        era == zz \div 146097
        doe == zz - era * 146097
        yoe == (doe - doe \div 1460 + doe \div 36524 - doe \div 146096) \div 365
        doy == doe - (365 * yoe + yoe \div 4 - yoe \div 100)
        mp  == (5 * doy + 2) \div 153
        d   == doy - (153 * mp + 2) \div 5 + 1
        m   == IF mp < 10 THEN mp + 3 ELSE mp - 9
        y   == yoe + era * 400
    IN  <<IF m <= 2 THEN y + 1 ELSE y, m, d>>

\* Weekday of a day number, "Mon" .. "Sun" (1970-01-01 was a Thursday)
Weekday(date) ==
    LET names == <<"Mon", "Tue", "Wed", "Thu", "Fri", "Sat", "Sun">>
    IN  names[((date + 3) % 7) + 1]

\* NaiveDate::from_ymd_opt(..).ok_or(CalendarError("{year}-{month}-{day}"))
get_date(year, month, day) ==
    IF month \in 1..12 /\ day >= 1 /\ day <= DaysInMonth(year, month)
    THEN Ok(DaysFromCivil(year, month, day))
    ELSE Err("CalendarError", <<year, month, day>>)

----------------------------------------------------------------------------
(* src/src/calendar.rs                                                     *)

\* (dividende / diviseur, dividende % diviseur)
divide(dividende, diviseur) == <<dividende \div diviseur, dividende % diviseur>>

\* mutant: 8 * ((a + 11) / 25) for (8 * (a + 11)) / 25
get_easter_misplaced_division(year) ==
    IF year < 0
    THEN Err("CalendarError", <<"out of range integral type conversion attempted">>)
    ELSE
      LET ab == divide(year, 100)
          a  == ab[1]
          b  == ab[2]
          cd == divide(3 * (a + 25), 4)
          c  == cd[1]
          d  == cd[2]
          e  == 8 * ((a + 11) \div 25)
          f  == (5 * a + b) % 19
          g  == (19 * f + c - e) % 30
          h  == (f + 11 * g) \div 319
          jk == divide(60 * (5 - d) + b, 4)
          j  == jk[1]
          k  == jk[2]
          m  == (2 * j - k - g + h) % 7
          np == divide(g - h + m + 114, 31)
      IN  get_date(year, np[1], np[2] + 1)

get_easter(year) ==
    IF year < 0
    THEN Err("CalendarError", <<"out of range integral type conversion attempted">>)
    ELSE
      LET my_year == year
          ab == divide(my_year, 100)
          a  == ab[1]
          b  == ab[2]
          cd == divide(3 * (a + 25), 4)
          c  == cd[1]
          d  == cd[2]
          e  == (8 * (a + 11)) \div 25
          f  == (5 * a + b) % 19
          g  == (19 * f + c - e) % 30
          h  == (f + 11 * g) \div 319
          jk == divide(60 * (5 - d) + b, 4)
          j  == jk[1]
          k  == jk[2]
          m  == (2 * j - k - g + h) % 7
          np == divide(g - h + m + 114, 31)
          n  == np[1]
          p  == np[2]
          day   == p + 1
          month == n
          \* the u32 subtractions, in evaluation order
          underflow == \/ 19 * f + c < e
                       \/ 5 < d
                       \/ 2 * j < k
                       \/ 2 * j - k < g
                       \/ g < h
      IN  IF underflow THEN Overflowed ELSE get_date(year, month, day)

\* the eleven dates pushed for one y of the loop
HolidaysOfYear(y, easter) ==
    << get_date(y, 1, 1),
       Ok(easter + 1),
       Ok(easter + 39),
       Ok(easter + 50),
       get_date(y, 5, 1),
       get_date(y, 5, 8),
       get_date(y, 7, 14),
       get_date(y, 8, 15),
       get_date(y, 11, 1),
       get_date(y, 11, 11),
       get_date(y, 12, 25) >>

\* mutant: only the requested year is materialized
build_holidays_central_year(year) ==
    LET easter == get_easter(year)
    IN  IF ~easter.ok THEN easter
        ELSE
          LET days == HolidaysOfYear(year, easter.val)
              bad  == {i \in DOMAIN days : ~days[i].ok}
          IN  IF bad # {}
              THEN days[CHOOSE i \in bad : \A k \in bad : i <= k]
              ELSE Ok([i \in DOMAIN days |-> days[i].val])

build_holidays(year) ==
    LET easter == get_easter(year)
    IN  IF ~easter.ok THEN easter
        ELSE
          LET days == HolidaysOfYear(year - 1, easter.val)
                        \o HolidaysOfYear(year, easter.val)
                        \o HolidaysOfYear(year + 1, easter.val)
              bad  == {i \in DOMAIN days : ~days[i].ok}
          IN  IF bad # {}
              THEN days[CHOOSE i \in bad : \A k \in bad : i <= k]
              ELSE Ok([i \in DOMAIN days |-> days[i].val])

\* the Calendar struct
Calendar(is_saturday_off, is_sunday_off, holidays) ==
    [is_saturday_off |-> is_saturday_off,
     is_sunday_off   |-> is_sunday_off,
     holidays        |-> holidays]

new(year) ==
    LET holidays == build_holidays(year)
    IN  IF holidays.ok THEN Ok(Calendar(TRUE, TRUE, holidays.val)) ELSE holidays

\* mutant: a negative year is converted by its absolute value
new_with_days_off_unsigned_abs(year, is_saturday_off, is_sunday_off) ==
    LET holidays == build_holidays(IF year < 0 THEN -year ELSE year)
    IN  IF holidays.ok
        THEN Ok(Calendar(is_saturday_off, is_sunday_off, holidays.val))
        ELSE holidays

new_with_days_off(year, is_saturday_off, is_sunday_off) ==
    LET holidays == build_holidays(year)
    IN  IF holidays.ok
        THEN Ok(Calendar(is_saturday_off, is_sunday_off, holidays.val))
        ELSE holidays

\* mutant: the weekend flags are ignored
is_day_off_any_weekend(self, date) ==
    LET is_holidays  == \E i \in DOMAIN self.holidays : date = self.holidays[i]
        saturday_off == Weekday(date) = "Sat"
        sunday_off   == Weekday(date) = "Sun"
    IN  is_holidays \/ saturday_off \/ sunday_off

is_day_off(self, date) ==
    LET is_holidays  == \E i \in DOMAIN self.holidays : date = self.holidays[i]
        saturday_off == Weekday(date) = "Sat" /\ self.is_saturday_off
        sunday_off   == Weekday(date) = "Sun" /\ self.is_sunday_off
    IN  is_holidays \/ saturday_off \/ sunday_off

add_days(date, nb_days) == date + nb_days

\* mutant: steps forward
minus_days_forward(date, nb_days) == date + nb_days

minus_days(date, nb_days) == date - nb_days

\* date_leaper is "add_days" or "minus_days"
leap_days(date_leaper, date, nb_days) ==
    IF date_leaper = "add_days" THEN add_days(date, nb_days)
    ELSE minus_days(date, nb_days)

\* mutant: one corrective step, not checked again
get_working_day_at_day_one_retry(self, date, nb_days, date_leaper) ==
    LET other_date == leap_days(date_leaper, date, nb_days)
    IN  IF is_day_off(self, other_date)
        THEN Ok(leap_days(date_leaper, other_date, 1))
        ELSE Ok(other_date)

RECURSIVE get_working_day_at_day(_, _, _, _)
get_working_day_at_day(self, date, nb_days, date_leaper) ==
    LET other_date == leap_days(date_leaper, date, nb_days)
    IN  IF is_day_off(self, other_date)
        THEN get_working_day_at_day(self, other_date, 1, date_leaper)
        ELSE Ok(other_date)

get_next_working_day(self, date, days_added) ==
    get_working_day_at_day(self, date, days_added, "add_days")

get_previous_working_day(self, date, days_added) ==
    get_working_day_at_day(self, date, days_added, "minus_days")

\* NaiveDateTime::new(date, time), the time as the second of the day
NaiveDateTime(date, secs) == [date |-> date, secs |-> secs]

\* NaiveTime::from_hms_opt(hour, minute, second) as the second of the day
Hms(hour, minute, second) == hour * 3600 + minute * 60 + second

\* datetime + Duration::hours(nb_hours)
add_hours(datetime, nb_hours) ==
    LET total == datetime.secs + nb_hours * 3600
    IN  NaiveDateTime(datetime.date + total \div 86400, total % 86400)

\* datetime - Duration::hours(nb_hours)
minus_hours(datetime, nb_hours) ==
    LET total == datetime.secs - nb_hours * 3600
    IN  NaiveDateTime(datetime.date + total \div 86400, total % 86400)

\* datetime_leaper is "add_hours" or "minus_hours"
leap_hours(datetime_leaper, datetime, nb_hours) ==
    IF datetime_leaper = "add_hours" THEN add_hours(datetime, nb_hours)
    ELSE minus_hours(datetime, nb_hours)

\* mutant: the corrective step is one hour
RECURSIVE get_working_day_at_hour_hourly(_, _, _, _)
get_working_day_at_hour_hourly(self, date, nb_hours, datetime_leaper) ==
    LET other_date == leap_hours(datetime_leaper, date, nb_hours)
    IN  IF is_day_off(self, other_date.date)
        THEN get_working_day_at_hour_hourly(self, other_date, 1, datetime_leaper)
        ELSE Ok(other_date)

RECURSIVE get_working_day_at_hour(_, _, _, _)
get_working_day_at_hour(self, date, nb_hours, datetime_leaper) ==
    LET other_date == leap_hours(datetime_leaper, date, nb_hours)
    IN  IF is_day_off(self, other_date.date)
        THEN get_working_day_at_hour(self, other_date, 24, datetime_leaper)
        ELSE Ok(other_date)

get_next_working_day_with_hours(self, datetime, hours_added) ==
    get_working_day_at_hour(self, datetime, hours_added, "add_hours")

get_previous_working_day_with_hours(self, datetime, hours_added) ==
    get_working_day_at_hour(self, datetime, hours_added, "minus_hours")

----------------------------------------------------------------------------
(* State machine of the calendar                                           *)

NoValue == [ok |-> FALSE, val |-> <<"None", <<>>>>]

NoFrame == [unit |-> "none", leaper |-> "none", depth |-> 0]

Init ==
    /\ pc = "start"
    /\ op = "none"
    /\ ctor = [year |-> 0]
    /\ cal = NoValue
    /\ arg = [date |-> 0]
    /\ frame = NoFrame
    /\ result = NoValue

\* Calendar::new(year)
New(years) ==
    /\ pc = "start"
    /\ \E year \in years :
         /\ cal' = new(year)
         /\ ctor' = [year |-> year]
    /\ pc' = IF cal'.ok THEN "ready" ELSE "failed"
    /\ op' = "new"
    /\ UNCHANGED <<arg, frame, result>>

\* Calendar::new_with_days_off(year, is_saturday_off, is_sunday_off)
NewWithDaysOff(years) ==
    /\ pc = "start"
    /\ \E year \in years, is_saturday_off \in BOOLEAN, is_sunday_off \in BOOLEAN :
         /\ cal' = new_with_days_off(year, is_saturday_off, is_sunday_off)
         /\ ctor' = [year |-> year]
    /\ pc' = IF cal'.ok THEN "ready" ELSE "failed"
    /\ op' = "new_with_days_off"
    /\ UNCHANGED <<arg, frame, result>>

\* cal.is_day_off(date)
IsDayOff(dates) ==
    /\ pc = "ready"
    /\ \E date \in dates :
         /\ arg' = [date |-> date]
         /\ result' = Ok(is_day_off(cal.val, date))
    /\ op' = "is_day_off"
    /\ pc' = "done"
    /\ UNCHANGED <<ctor, cal, frame>>

\* cal.get_next_working_day(date, days_added)
GetNextWorkingDay(dates, days) ==
    /\ pc = "ready"
    /\ \E date \in dates, days_added \in days :
         /\ arg' = [date |-> date, n |-> days_added]
         /\ result' = get_next_working_day(cal.val, date, days_added)
    /\ op' = "get_next_working_day"
    /\ pc' = "done"
    /\ UNCHANGED <<ctor, cal, frame>>

\* cal.get_previous_working_day(date, days_added)
GetPreviousWorkingDay(dates, days) ==
    /\ pc = "ready"
    /\ \E date \in dates, days_added \in days :
         /\ arg' = [date |-> date, n |-> days_added]
         /\ result' = get_previous_working_day(cal.val, date, days_added)
    /\ op' = "get_previous_working_day"
    /\ pc' = "done"
    /\ UNCHANGED <<ctor, cal, frame>>

\* cal.get_next_working_day_with_hours(datetime, hours_added)
GetNextWorkingDayWithHours(dates, times, hours) ==
    /\ pc = "ready"
    /\ \E date \in dates, secs \in times, hours_added \in hours :
         /\ arg' = [datetime |-> NaiveDateTime(date, secs), n |-> hours_added]
         /\ result' = get_next_working_day_with_hours(
                          cal.val, NaiveDateTime(date, secs), hours_added)
    /\ op' = "get_next_working_day_with_hours"
    /\ pc' = "done"
    /\ UNCHANGED <<ctor, cal, frame>>

\* cal.get_previous_working_day_with_hours(datetime, hours_added)
GetPreviousWorkingDayWithHours(dates, times, hours) ==
    /\ pc = "ready"
    /\ \E date \in dates, secs \in times, hours_added \in hours :
         /\ arg' = [datetime |-> NaiveDateTime(date, secs), n |-> hours_added]
         /\ result' = get_previous_working_day_with_hours(
                          cal.val, NaiveDateTime(date, secs), hours_added)
    /\ op' = "get_previous_working_day_with_hours"
    /\ pc' = "done"
    /\ UNCHANGED <<ctor, cal, frame>>

----------------------------------------------------------------------------
(* The traversals, one invocation of the recursive function at a time      *)

\* the invocation get_working_day_at_day(date, nb_days, date_leaper) or
\* get_working_day_at_hour(date, nb_hours, datetime_leaper)
Invocation(unit, leaper, date, nb) ==
    [unit |-> unit, leaper |-> leaper, date |-> date, nb |-> nb, depth |-> 0]

\* mutant: the recursive call is given date, not other_date
recurse_at_day_from_date(f, other_date) ==
    [f EXCEPT !.nb = 1, !.depth = @ + 1]

\* self.get_working_day_at_day(other_date, 1, date_leaper)
recurse_at_day(f, other_date) ==
    [f EXCEPT !.date = other_date, !.nb = 1, !.depth = @ + 1]

\* self.get_working_day_at_hour(other_date, 24, datetime_leaper)
recurse_at_hour(f, other_date) ==
    [f EXCEPT !.date = other_date, !.nb = 24, !.depth = @ + 1]

\* get_next_working_day / get_previous_working_day enter the recursion
CallGetWorkingDayAtDay(dates, days) ==
    /\ pc = "ready"
    /\ \E date \in dates, nb_days \in days, date_leaper \in {"add_days", "minus_days"} :
         /\ arg' = [date |-> date, n |-> nb_days]
         /\ frame' = Invocation("day", date_leaper, date, nb_days)
         /\ op' = IF date_leaper = "add_days" THEN "get_next_working_day"
                  ELSE "get_previous_working_day"
    /\ pc' = "walking"
    /\ UNCHANGED <<ctor, cal, result>>

\* one invocation of get_working_day_at_day: return, or call itself
GetWorkingDayAtDay ==
    /\ pc = "walking"
    /\ frame.unit = "day"
    /\ frame.depth < MaxDepth
    /\ LET other_date == leap_days(frame.leaper, frame.date, frame.nb)
       IN  IF is_day_off(cal.val, other_date)
           THEN /\ frame' = recurse_at_day(frame, other_date)
                /\ UNCHANGED <<pc, result>>
           ELSE /\ result' = Ok(other_date)
                /\ pc' = "done"
                /\ UNCHANGED frame
    /\ UNCHANGED <<op, ctor, cal, arg>>

\* get_next_working_day_with_hours / get_previous_working_day_with_hours
\* enter the recursion
CallGetWorkingDayAtHour(dates, times, hours) ==
    /\ pc = "ready"
    /\ \E date \in dates, secs \in times, nb_hours \in hours,
          datetime_leaper \in {"add_hours", "minus_hours"} :
         /\ arg' = [datetime |-> NaiveDateTime(date, secs), n |-> nb_hours]
         /\ frame' = Invocation("hour", datetime_leaper,
                                NaiveDateTime(date, secs), nb_hours)
         /\ op' = IF datetime_leaper = "add_hours"
                  THEN "get_next_working_day_with_hours"
                  ELSE "get_previous_working_day_with_hours"
    /\ pc' = "walking"
    /\ UNCHANGED <<ctor, cal, result>>

\* one invocation of get_working_day_at_hour: return, or call itself
GetWorkingDayAtHour ==
    /\ pc = "walking"
    /\ frame.unit = "hour"
    /\ frame.depth < MaxDepth
    /\ LET other_date == leap_hours(frame.leaper, frame.date, frame.nb)
       IN  IF is_day_off(cal.val, other_date.date)
           THEN /\ frame' = recurse_at_hour(frame, other_date)
                /\ UNCHANGED <<pc, result>>
           ELSE /\ result' = Ok(other_date)
                /\ pc' = "done"
                /\ UNCHANGED frame
    /\ UNCHANGED <<op, ctor, cal, arg>>

----------------------------------------------------------------------------
(* src/src/formatter.rs                                                    *)

DigitChar(d) == <<"0", "1", "2", "3", "4", "5", "6", "7", "8", "9">>[d + 1]

RECURSIVE Pow10(_)
Pow10(n) == IF n = 0 THEN 1 ELSE 10 * Pow10(n - 1)

\* {:0width$} of a number n >= 0 that fits in width digits
Digits(n, width) ==
    [i \in 1..width |-> DigitChar((n \div Pow10(width - i)) % 10)]

\* number of decimal digits of n >= 0
RECURSIVE NumDigits(_)
NumDigits(n) == IF n < 10 THEN 1 ELSE 1 + NumDigits(n \div 10)

\* NaiveDate::to_string: YYYY-MM-DD, the year signed and at least four
\* digits when it is outside 0..=9999
date_to_string(date) ==
    LET ymd  == CivilFromDays(date)
        year == ymd[1]
        yyyy == IF year >= 0 /\ year <= 9999 THEN Digits(year, 4)
                ELSE IF year < 0
                     THEN <<"-">> \o Digits(-year, IF NumDigits(-year) < 4 THEN 4
                                                   ELSE NumDigits(-year))
                     ELSE <<"+">> \o Digits(year, NumDigits(year))
    IN  yyyy \o <<"-">> \o Digits(ymd[2], 2) \o <<"-">> \o Digits(ymd[3], 2)

\* NaiveTime::to_string of a whole second: HH:MM:SS
time_to_string(time) ==
    Digits(time \div 3600, 2) \o <<":">> \o Digits((time \div 60) % 60, 2)
        \o <<":">> \o Digits(time % 60, 2)

\* str::replace(from, "")
replace(text, from) == SelectSeq(text, LAMBDA ch : ch # from)

\* &text[first..=last], with Rust's zero-based indices
Slice(text, first, last) == SubSeq(text, first + 1, last + 1)

\* &text[first..]
SliceFrom(text, first) == SubSeq(text, first + 1, Len(text))

Panic(msg) == [ok |-> FALSE, val |-> <<"Panic", msg>>]

format_teliway_datetime_to_iso(date, hour) ==
    IF Len(date) < 6 \/ Len(hour) < 4
    THEN Panic("byte index out of bounds")
    ELSE
      LET y  == Slice(date, 0, 3)
          m  == Slice(date, 4, 5)
          d  == SliceFrom(date, 6)
          h  == Slice(hour, 0, 1)
          mm == Slice(hour, 2, 3)
          sc == SliceFrom(hour, 4)
      IN  Ok(<< y \o <<"-">> \o m \o <<"-">> \o d,
                h \o <<":">> \o mm \o <<":">> \o sc >>)

iso_date_to_teliway_date(date) == replace(date_to_string(date), "-")

\* mutant: the seconds are kept
iso_time_to_teliway_hour_with_seconds(date) ==
    replace(Slice(time_to_string(date), 0, 7), ":")

iso_time_to_teliway_hour(date) == replace(Slice(time_to_string(date), 0, 4), ":")

\* iso_date_to_teliway_date(date)
IsoDateToTeliwayDate(dates) ==
    /\ pc = "start"
    /\ \E date \in dates :
         arg' = [source |-> "converted", date |-> date,
                 teliway_date |-> iso_date_to_teliway_date(date)]
    /\ op' = "iso_date_to_teliway_date"
    /\ pc' = "date_text"
    /\ UNCHANGED <<ctor, cal, frame, result>>

\* iso_time_to_teliway_hour(time)
IsoTimeToTeliwayHour(times) ==
    /\ pc = "date_text"
    /\ \E time \in times :
         arg' = [source |-> "converted", date |-> arg.date,
                 teliway_date |-> arg.teliway_date, time |-> time,
                 teliway_hour |-> iso_time_to_teliway_hour(time)]
    /\ op' = "iso_time_to_teliway_hour"
    /\ pc' = "hour_text"
    /\ UNCHANGED <<ctor, cal, frame, result>>

\* a caller holding Teliway texts of its own
TeliwayTexts(texts) ==
    /\ pc = "start"
    /\ \E text \in texts :
         arg' = [source |-> "literal",
                 teliway_date |-> text[1], teliway_hour |-> text[2]]
    /\ op' = "none"
    /\ pc' = "hour_text"
    /\ UNCHANGED <<ctor, cal, frame, result>>

\* format_teliway_datetime_to_iso(date, hour) on the texts held
FormatTeliwayDatetimeToIso ==
    /\ pc = "hour_text"
    /\ result' = format_teliway_datetime_to_iso(arg.teliway_date, arg.teliway_hour)
    /\ op' = "format_teliway_datetime_to_iso"
    /\ pc' = "done"
    /\ UNCHANGED <<ctor, cal, arg, frame>>

----------------------------------------------------------------------------
(* Inputs                                                                  *)

Years == MinYear..MaxYear

\* the dates queried on a calendar built for `year`: the three materialized
\* years and DateMargin days on each side
QueryDates(year) ==
    (DaysFromCivil(year - 1, 1, 1) - DateMargin)
        .. (DaysFromCivil(year + 1, 12, 31) + DateMargin)

DayCounts == 0..MaxDays

HourCounts == {HourStride * i : i \in 0..MaxHourSteps}

TimesOfDay == {Hms(8, 0, 0), Hms(17, 30, 15)}

CtorYears == (-NegYears)..MaxCtorYear

HolidayYears == MinHolidayYear..MaxHolidayYear

\* March to June of the construction year, where the movable holidays fall,
\* and the first, the eighth, the eleventh, the fourteenth, the fifteenth
\* and the twenty-fifth of every month of the three materialized years
HolidayDates(year) ==
    (DaysFromCivil(year, 3, 1)..DaysFromCivil(year, 6, 30))
        \cup {DaysFromCivil(y, m, d) :
                 y \in {year - 1, year, year + 1}, m \in 1..12,
                 d \in {1, 8, 11, 14, 15, 25}}

WalkYears == MinYear..MaxWalkYear

WalkTimes == {Hms(17, 30, 15)}

\* the dates a followed traversal starts from: the construction year
WalkDates(year) ==
    (DaysFromCivil(year, 1, 1) - DateMargin)
        .. (DaysFromCivil(year, 12, 31) + DateMargin)

FmtDates == DaysFromCivil(MinFmtYear, 1, 1)..DaysFromCivil(MaxFmtYear, 12, 31)

FmtTimes == {Hms(h, m, sc) : h \in {0, 10, 23}, m \in {0, 30, 59}, sc \in {0, 59}}

\* the texts of the crate's own test, and texts too short to slice
LegacyTexts ==
    { << <<"2", "0", "2", "3", "1", "2", "0", "1">>, <<"1", "0", "3", "0", "0", "0">> >>,
      << <<"2", "0", "2", "3", "1", "2", "0", "1">>, <<"1", "0", "3">> >>,
      << <<"2", "0", "2", "3">>, <<"1", "0", "3", "0", "0", "0">> >> }

----------------------------------------------------------------------------
(* Specifications                                                          *)

\* construction, the day-off query and the traversal by days
Next ==
    \/ New(Years)
    \/ NewWithDaysOff(Years)
    \/ IsDayOff(QueryDates(ctor.year))
    \/ GetNextWorkingDay(QueryDates(ctor.year), DayCounts)
    \/ GetPreviousWorkingDay(QueryDates(ctor.year), DayCounts)

Spec == Init /\ [][Next]_vars

\* construction and the traversal by hours
NextHours ==
    \/ New(Years)
    \/ NewWithDaysOff(Years)
    \/ GetNextWorkingDayWithHours(QueryDates(ctor.year), TimesOfDay, HourCounts)
    \/ GetPreviousWorkingDayWithHours(QueryDates(ctor.year), TimesOfDay, HourCounts)

SpecHours == Init /\ [][NextHours]_vars

\* construction alone, over every year from -NegYears to MaxCtorYear
NextCtor ==
    \/ New(CtorYears)
    \/ NewWithDaysOff(CtorYears)

SpecCtor == Init /\ [][NextCtor]_vars

\* construction and the day-off query around the holidays, over two
\* centuries of construction years
NextHolidays ==
    \/ New(HolidayYears)
    \/ NewWithDaysOff(HolidayYears)
    \/ IsDayOff(HolidayDates(ctor.year))

SpecHolidays == Init /\ [][NextHolidays]_vars

\* construction and the traversals followed invocation by invocation; a
\* call runs to completion, so an enabled invocation is eventually taken
NextWalk ==
    \/ New(WalkYears)
    \/ NewWithDaysOff(WalkYears)
    \/ CallGetWorkingDayAtDay(WalkDates(ctor.year), DayCounts)
    \/ GetWorkingDayAtDay
    \/ CallGetWorkingDayAtHour(WalkDates(ctor.year), WalkTimes, HourCounts)
    \/ GetWorkingDayAtHour

SpecWalk ==
    /\ Init
    /\ [][NextWalk]_vars
    /\ WF_vars(GetWorkingDayAtDay)
    /\ WF_vars(GetWorkingDayAtHour)

\* the Teliway text helpers
NextFmt ==
    \/ IsoDateToTeliwayDate(FmtDates)
    \/ IsoTimeToTeliwayHour(FmtTimes)
    \/ TeliwayTexts(LegacyTexts)
    \/ FormatTeliwayDatetimeToIso

SpecFmt == Init /\ [][NextFmt]_vars

----------------------------------------------------------------------------
(* Reference definitions used by the properties                            *)

\* the set of the dates of a Vec<NaiveDate>
HolidaySet(holidays) == {holidays[i] : i \in DOMAIN holidays}

\* Gregorian Easter Sunday by the anonymous (Meeus/Jones/Butcher) computus
MeeusEaster(Y) ==
    LET a == Y % 19
        b == Y \div 100
        c == Y % 100
        d == b \div 4
        e == b % 4
        f == (b + 8) \div 25
        g == (b - f + 1) \div 3
        h == (19 * a + b - d - g + 15) % 30
        i == c \div 4
        k == c % 4
        l == (32 + 2 * e + 2 * i - h - k) % 7
        m == (a + 11 * h + 22 * l) \div 451
        month == (h + l - 7 * m + 114) \div 31
        day   == ((h + l - 7 * m + 114) % 31) + 1
    IN  DaysFromCivil(Y, month, day)

\* the eight fixed French public holidays of year y
FixedHolidays(y) ==
    {DaysFromCivil(y, md[1], md[2]) :
        md \in {<<1, 1>>, <<5, 1>>, <<5, 8>>, <<7, 14>>, <<8, 15>>,
                <<11, 1>>, <<11, 11>>, <<12, 25>>}}

\* Easter Monday, Ascension Thursday and Whit Monday of year y
MovableHolidays(y) ==
    {MeeusEaster(y) + 1, MeeusEaster(y) + 39, MeeusEaster(y) + 50}

\* the years a calendar built for year Y materializes
NearYears(Y) == {Y - 1, Y, Y + 1}

----------------------------------------------------------------------------
(* Properties of the day-off query and the traversal by days (Spec; C2 is  *)
(* checked under SpecHolidays)                                             *)

(* C1: is_day_off(date) is true exactly when date is in the holiday set    *)
(* built at construction, or is a Saturday with is_saturday_off, or is a   *)
(* Sunday with is_sunday_off; with Saturdays working, a Saturday is a day  *)
(* off only when it is itself a holiday.                                   *)
C1_IsDayOffIff ==
    (pc = "done" /\ op = "is_day_off") =>
        /\ result.val =
              (\/ arg.date \in HolidaySet(cal.val.holidays)
               \/ (Weekday(arg.date) = "Sat" /\ cal.val.is_saturday_off)
               \/ (Weekday(arg.date) = "Sun" /\ cal.val.is_sunday_off))
        /\ (Weekday(arg.date) = "Sat" /\ ~cal.val.is_saturday_off /\ result.val)
              => arg.date \in HolidaySet(build_holidays(ctor.year).val)

\* 2018-07-14 is a Saturday and a holiday: a day off although Saturdays work
C1_Witness ==
    /\ pc = "done" /\ op = "is_day_off"
    /\ ctor.year = 2018
    /\ ~cal.val.is_saturday_off /\ cal.val.is_sunday_off
    /\ arg.date = DaysFromCivil(2018, 7, 14)
    /\ Weekday(arg.date) = "Sat"
    /\ result.val = TRUE

(* C2: for a calendar built for year Y, each of the eight fixed holidays   *)
(* of the years Y-1, Y and Y+1 is a day off, whatever the weekend flags.   *)
C2_FixedHolidaysOff ==
    (pc = "done" /\ op = "is_day_off"
        /\ \E y \in NearYears(ctor.year) : arg.date \in FixedHolidays(y))
    => result.val = TRUE

\* 2019-11-11 is a Monday; the calendar is built for 2018 with no weekend off
C2_Witness ==
    /\ pc = "done" /\ op = "is_day_off"
    /\ ctor.year = 2018
    /\ ~cal.val.is_saturday_off /\ ~cal.val.is_sunday_off
    /\ arg.date = DaysFromCivil(2019, 11, 11)
    /\ result.val = TRUE

(* C4: for a calendar built for year Y, every real holiday of a date's own *)
(* year in {Y-1, Y, Y+1} (the eight fixed ones and Easter Monday,          *)
(* Ascension Thursday and Whit Monday of that year's own Easter) is a day  *)
(* off.                                                                    *)
C4_AllRealHolidaysOff ==
    (pc = "done" /\ op = "is_day_off"
        /\ \E y \in NearYears(ctor.year) :
              arg.date \in FixedHolidays(y) \cup MovableHolidays(y))
    => result.val = TRUE

(* C5: get_next_working_day(date, n) is the earliest date >= date + n that *)
(* is not a day off and get_previous_working_day(date, n) the latest date  *)
(* <= date - n that is not a day off; n counts calendar days.              *)
C5_EarliestWorkingDay ==
    /\ (pc = "done" /\ op = "get_next_working_day") =>
          /\ result.ok
          /\ result.val >= arg.date + arg.n
          /\ ~is_day_off(cal.val, result.val)
          /\ \A d \in (arg.date + arg.n)..(result.val - 1) : is_day_off(cal.val, d)
    /\ (pc = "done" /\ op = "get_previous_working_day") =>
          /\ result.ok
          /\ result.val <= arg.date - arg.n
          /\ ~is_day_off(cal.val, result.val)
          /\ \A d \in (result.val + 1)..(arg.date - arg.n) : is_day_off(cal.val, d)

\* Calendar(2018): 2018-12-31 + 1 lands on the holiday 2019-01-01 and rolls
\* to 2019-01-02
C5_Witness ==
    /\ pc = "done" /\ op = "get_next_working_day"
    /\ ctor.year = 2018
    /\ cal.val.is_saturday_off /\ cal.val.is_sunday_off
    /\ arg.date = DaysFromCivil(2018, 12, 31) /\ arg.n = 1
    /\ result.val = DaysFromCivil(2019, 1, 2)

----------------------------------------------------------------------------
(* Properties of the traversal by hours (SpecHours)                        *)

\* the first candidate of an hour traversal, counted in whole hours:
\* datetime + sign * hours
FirstCandidate(datetime, sign, hours) ==
    LET hour_number == datetime.date * 24 + (datetime.secs \div 3600) + sign * hours
    IN  [date |-> hour_number \div 24,
         secs |-> (hour_number % 24) * 3600 + (datetime.secs % 3600)]

\* r is the first of first, first + sign * 24 h, first + sign * 48 h, ...
\* whose date is not a day off
IsFirstWorkingCandidate(self, first, sign, r) ==
    LET k == sign * (r.date - first.date)
    IN  /\ k >= 0
        /\ r.secs = first.secs
        /\ ~is_day_off(self, r.date)
        /\ \A i \in 0..(k - 1) : is_day_off(self, first.date + sign * i)

(* C6: get_next_working_day_with_hours(datetime, h) is datetime + h hours  *)
(* + 24*k hours and get_previous_working_day_with_hours(datetime, h) is    *)
(* datetime - h hours - 24*k hours, k >= 0 the smallest number of 24-hour  *)
(* steps after which the date is not a day off: the result keeps the time  *)
(* of day of the first candidate and its date is never a day off.          *)
C6_HourTraversal ==
    /\ (pc = "done" /\ op = "get_next_working_day_with_hours") =>
          /\ result.ok
          /\ IsFirstWorkingCandidate(cal.val,
                 FirstCandidate(arg.datetime, 1, arg.n), 1, result.val)
    /\ (pc = "done" /\ op = "get_previous_working_day_with_hours") =>
          /\ result.ok
          /\ IsFirstWorkingCandidate(cal.val,
                 FirstCandidate(arg.datetime, -1, arg.n), -1, result.val)

\* Calendar(2024): 2024-11-13 08:00 minus 36 h is Monday 2024-11-11 20:00, a
\* holiday; three steps of 24 h back reach Friday 2024-11-08 20:00
C6_Witness ==
    /\ pc = "done" /\ op = "get_previous_working_day_with_hours"
    /\ ctor.year = 2024
    /\ cal.val.is_saturday_off /\ cal.val.is_sunday_off
    /\ arg.datetime = NaiveDateTime(DaysFromCivil(2024, 11, 13), Hms(8, 0, 0))
    /\ arg.n = 36
    /\ result.val = NaiveDateTime(DaysFromCivil(2024, 11, 8), Hms(20, 0, 0))

(* C10: on whole days the traversal by hours agrees with the traversal by  *)
(* days: the date of get_next_working_day_with_hours(dt, 24*n) is          *)
(* get_next_working_day(dt.date(), n) and its time of day is that of dt;   *)
(* likewise for the previous working day.                                  *)
C10_HoursAgreeWithDays ==
    /\ (pc = "done" /\ op = "get_next_working_day_with_hours" /\ arg.n % 24 = 0) =>
          /\ result.val.date =
                get_next_working_day(cal.val, arg.datetime.date, arg.n \div 24).val
          /\ result.val.secs = arg.datetime.secs
    /\ (pc = "done" /\ op = "get_previous_working_day_with_hours" /\ arg.n % 24 = 0) =>
          /\ result.val.date =
                get_previous_working_day(cal.val, arg.datetime.date, arg.n \div 24).val
          /\ result.val.secs = arg.datetime.secs

\* Calendar(2018): 2018-12-31 17:30:15 plus 24 h lands on the holiday
\* 2019-01-01 and rolls to 2019-01-02 17:30:15, as 2018-12-31 plus 1 day does
C10_Witness ==
    /\ pc = "done" /\ op = "get_next_working_day_with_hours"
    /\ ctor.year = 2018
    /\ cal.val.is_saturday_off /\ cal.val.is_sunday_off
    /\ arg.datetime = NaiveDateTime(DaysFromCivil(2018, 12, 31), Hms(17, 30, 15))
    /\ arg.n = 24
    /\ result.val = NaiveDateTime(DaysFromCivil(2019, 1, 2), Hms(17, 30, 15))

----------------------------------------------------------------------------
(* Properties of the construction (SpecHolidays, SpecCtor)                 *)

(* C3: for every year Y of MinHolidayYear..MaxHolidayYear get_easter(Y) is *)
(* the Gregorian Easter Sunday of the anonymous (Meeus/Jones/Butcher)      *)
(* computus, and Easter Monday (+1), Ascension (+39) and Whit Monday (+50) *)
(* of year Y are days off for Calendar(Y).                                 *)
C3_EasterIsGregorian ==
    /\ pc \in {"ready", "done"} =>
          get_easter(ctor.year) = Ok(MeeusEaster(ctor.year))
    /\ (pc = "done" /\ op = "is_day_off"
          /\ arg.date \in MovableHolidays(ctor.year))
       => result.val = TRUE

\* Easter 2020 is 2020-04-12: Monday 2020-04-13 is a day off for Calendar(2020)
C3_Witness ==
    /\ pc = "done" /\ op = "is_day_off"
    /\ ctor.year = 2020
    /\ get_easter(2020) = Ok(DaysFromCivil(2020, 4, 12))
    /\ ~cal.val.is_saturday_off /\ ~cal.val.is_sunday_off
    /\ arg.date = DaysFromCivil(2020, 4, 13)
    /\ result.val = TRUE

\* the holiday set of a successful construction for year Y
CompleteHolidaySet(Y) ==
    UNION {FixedHolidays(y) : y \in NearYears(Y)} \cup MovableHolidays(Y)

(* C8: construction fails or succeeds as a whole: for a negative year new  *)
(* and new_with_days_off return Err(CalendarError) and no Calendar; for a  *)
(* year of 0..9999 they return Ok with the complete holiday set, the month *)
(* and day computed by get_easter forming a valid date of March or April;  *)
(* the arithmetic never leaves its range.                                  *)
C8_ConstructionChecked ==
    pc # "start" =>
        /\ ~cal.ok => cal.val[1] # "ArithmeticOverflow"
        /\ ctor.year < 0 =>
              /\ pc = "failed"
              /\ ~cal.ok
              /\ cal.val[1] = "CalendarError"
        /\ (ctor.year >= 0 /\ ctor.year <= 9999) =>
              /\ pc = "ready"
              /\ cal.ok
              /\ Len(cal.val.holidays) = 33
              /\ HolidaySet(cal.val.holidays) = CompleteHolidaySet(ctor.year)
              /\ get_easter(ctor.year).ok
              /\ CivilFromDays(get_easter(ctor.year).val)[1] = ctor.year
              /\ CivilFromDays(get_easter(ctor.year).val)[2] \in {3, 4}

\* new_with_days_off(-1, ..) returns the CalendarError of the conversion
C8_Witness ==
    /\ pc = "failed" /\ op = "new_with_days_off"
    /\ ctor.year = -1
    /\ ~cal.ok
    /\ cal.val[1] = "CalendarError"

----------------------------------------------------------------------------
(* Properties of the recursion (SpecWalk)                                  *)

\* number of consecutive days off from date d on
RECURSIVE RunFrom(_, _)
RunFrom(self, d) == IF is_day_off(self, d) THEN 1 + RunFrom(self, d + 1) ELSE 0

\* the longest run of consecutive days off of a calendar: a run longer than
\* a weekend holds a holiday and starts at most two days before its first
\* one; day 2 (1970-01-03) is a Saturday of a year without holidays here
LongestRun(self) ==
    LET starts == {h - i : h \in HolidaySet(self.holidays), i \in 0..2} \cup {2, 3}
        runs   == {RunFrom(self, d) : d \in starts}
    IN  CHOOSE n \in runs : \A k \in runs : k <= n

\* the longest run of every calendar the specification builds
LongestRuns ==
    {<<y, sat, sun, LongestRun(new_with_days_off(y, sat, sun).val)>> :
        y \in WalkYears, sat \in BOOLEAN, sun \in BOOLEAN}

LongestRunOf(year, self) ==
    LET row == CHOOSE r \in LongestRuns :
                  /\ r[1] = year
                  /\ r[2] = self.is_saturday_off
                  /\ r[3] = self.is_sunday_off
    IN  row[4]

(* C9: every traversal terminates: from any start and step the recursion   *)
(* of get_working_day_at_day and get_working_day_at_hour reaches a         *)
(* candidate that is not a day off and returns it, after at most as many   *)
(* corrective steps as the longest run of consecutive days off of the      *)
(* calendar.                                                               *)
C9_TraversalTerminates ==
    /\ [](pc \in {"walking", "done"} =>
            /\ frame.depth <= LongestRunOf(ctor.year, cal.val)
            /\ frame.depth < MaxDepth)
    /\ [](pc = "done" =>
            /\ result.ok
            /\ ~is_day_off(cal.val,
                  IF frame.unit = "day" THEN result.val ELSE result.val.date))
    /\ (pc = "walking") ~> (pc = "done")

\* Calendar(2018), both weekend days off: three corrective steps (Saturday
\* 2018-03-31, Easter Sunday, Easter Monday) before the traversal returns
C9_Witness ==
    /\ pc = "done"
    /\ ctor.year = 2018
    /\ cal.val.is_saturday_off /\ cal.val.is_sunday_off
    /\ frame.depth = 3
    /\ LongestRunOf(2018, cal.val) = 3
    /\ frame.unit = "day"
    /\ result.val = DaysFromCivil(2018, 4, 3)

----------------------------------------------------------------------------
(* Properties of the Teliway helpers (SpecFmt)                             *)

\* "YYYY-MM-DD" of a date with a four-digit year
IsoDateText(date) ==
    LET ymd == CivilFromDays(date)
    IN  << DigitChar(ymd[1] \div 1000), DigitChar((ymd[1] \div 100) % 10),
           DigitChar((ymd[1] \div 10) % 10), DigitChar(ymd[1] % 10), "-",
           DigitChar(ymd[2] \div 10), DigitChar(ymd[2] % 10), "-",
           DigitChar(ymd[3] \div 10), DigitChar(ymd[3] % 10) >>

\* "HH:MM" of a time of day
IsoHourMinuteText(time) ==
    LET h == time \div 3600
        m == (time \div 60) % 60
    IN  << DigitChar(h \div 10), DigitChar(h % 10), ":",
           DigitChar(m \div 10), DigitChar(m % 10) >>

\* "HH:MM:SS" of a time of day
IsoTimeText(time) ==
    IsoHourMinuteText(time)
        \o << ":", DigitChar((time % 60) \div 10), DigitChar(time % 10) >>

RoundTripDone ==
    pc = "done" /\ op = "format_teliway_datetime_to_iso" /\ arg.source = "converted"

(* C7, as stated: format_teliway_datetime_to_iso(iso_date_to_teliway_date  *)
(* (d), iso_time_to_teliway_hour(t)) returns the pair ("YYYY-MM-DD" of d,  *)
(* "HH:MM:SS" of t).                                                       *)
C7_RoundTripAsStated ==
    RoundTripDone =>
        /\ result.ok
        /\ result.val = <<IsoDateText(arg.date), IsoTimeText(arg.time)>>

(* C7, amended: the round trip returns the pair ("YYYY-MM-DD" of d,        *)
(* "HH:MM:"): the date text is reconstructed, the time text keeps the hour *)
(* and the minute of t and has an empty seconds field.                     *)
C7_RoundTripDropsSeconds ==
    RoundTripDone =>
        /\ result.ok
        /\ result.val =
              <<IsoDateText(arg.date), IsoHourMinuteText(arg.time) \o <<":">> >>

\* 1000-12-01 and 10:30:59 come back as "1000-12-01" and "10:30:"
C7_Witness ==
    /\ RoundTripDone
    /\ arg.date = DaysFromCivil(1000, 12, 1)
    /\ arg.time = Hms(10, 30, 59)
    /\ arg.teliway_date = <<"1", "0", "0", "0", "1", "2", "0", "1">>
    /\ arg.teliway_hour = <<"1", "0", "3", "0">>
    /\ result.val = << <<"1", "0", "0", "0", "-", "1", "2", "-", "0", "1">>,
                       <<"1", "0", ":", "3", "0", ":">> >>

====
